---- MODULE Spec2Model ----
(***************************************************************************)
(* hfsearch: search_models / search_datasets (src/hfsearch/search.py) and  *)
(* the command-line entry point main() (src/hfsearch/cli.py).              *)
(*                                                                         *)
(* Python values are tagged records: None, str (a sequence of characters), *)
(* int, list.  An object's attributes and a dict's keys are the DOMAIN of  *)
(* a function, so "the attribute is missing" and "the key is not sent" are *)
(* statements about a DOMAIN, distinct from "present with the value None". *)
(***************************************************************************)
EXTENDS Integers, Sequences, FiniteSets, TLC

\* ------------------------------------------------------------------ bounds
MaxStream == 2      \* longest result stream the catalog delivers
MaxCalls == 2       \* calls a library caller makes with the same arguments

\* ------------------------------------------------------- program constants
DefaultLimit == 10

\* ----------------------------------------------------------- Python values
None == [t |-> "None"]
Str(s) == [t |-> "str", v |-> s]
PyInt(n) == [t |-> "int", v |-> n]
PyList(l) == [t |-> "list", v |-> l]

\* bool(v) of a Python value
Truthy(v) ==
    CASE v.t = "None" -> FALSE
      [] v.t = "str"  -> v.v # <<>>
      [] v.t = "list" -> v.v # <<>>
      [] v.t = "int"  -> v.v # 0

\* a or b
PyOr(a, b) == IF Truthy(a) THEN a ELSE b

\* getattr(obj, name, default)
GetAttr(obj, name, default) == IF name \in DOMAIN obj THEN obj[name] ELSE default

\* d[k] = v on a dict
Put(d, k, v) == [x \in (DOMAIN d) \cup {k} |-> IF x = k THEN v ELSE d[x]]

\* c in s, for a one-character c and a character sequence s
CharIn(c, s) == \E i \in 1..Len(s) : s[i] = c

\* s.split(c)[0]: the characters before the first c, all of s when c is not in s
SplitHead(s, c) ==
    IF CharIn(c, s)
    THEN LET first == CHOOSE i \in 1..Len(s) :
                          s[i] = c /\ \A j \in 1..(i - 1) : s[j] # c
         IN  SubSeq(s, 1, first - 1)
    ELSE s

\* the literal "N/A"
NA == Str(<<"N", "/", "A">>)

\* ------------------------------------------------- keyword-argument binding
\* search_models(query=None, limit=10, author=None, tags=None, task=None)
BindModels(given) ==
    [query  |-> GetAttr(given, "query", None),
     limit  |-> GetAttr(given, "limit", PyInt(DefaultLimit)),
     author |-> GetAttr(given, "author", None),
     tags   |-> GetAttr(given, "tags", None),
     task   |-> GetAttr(given, "task", None)]

\* search_datasets(query=None, limit=10, author=None, tags=None)
BindDatasets(given) ==
    [query  |-> GetAttr(given, "query", None),
     limit  |-> GetAttr(given, "limit", PyInt(DefaultLimit)),
     author |-> GetAttr(given, "author", None),
     tags   |-> GetAttr(given, "tags", None)]

Bind(f, given) == IF f = "search_models" THEN BindModels(given) ELSE BindDatasets(given)

\* ------------------------------------------------------ the outbound request
\* a faulty request builder: every filter is sent, whatever its value
KwargsModelsAllKeys(p) ==
    [limit |-> p.limit, search |-> p.query, author |-> p.author,
     filter |-> p.tags, pipeline_tag |-> p.task]

\* kwargs of search_models
BuildKwargsModels(p) ==
    LET k0 == [limit |-> p.limit]
        k1 == IF Truthy(p.query)  THEN Put(k0, "search", p.query)      ELSE k0
        k2 == IF Truthy(p.author) THEN Put(k1, "author", p.author)     ELSE k1
        k3 == IF Truthy(p.tags)   THEN Put(k2, "filter", p.tags)       ELSE k2
        k4 == IF Truthy(p.task)   THEN Put(k3, "pipeline_tag", p.task) ELSE k3
    IN  k4

\* kwargs of search_datasets
BuildKwargsDatasets(p) ==
    LET k0 == [limit |-> p.limit]
        k1 == IF Truthy(p.query)  THEN Put(k0, "search", p.query)  ELSE k0
        k2 == IF Truthy(p.author) THEN Put(k1, "author", p.author) ELSE k1
        k3 == IF Truthy(p.tags)   THEN Put(k2, "filter", p.tags)   ELSE k2
    IN  k3

BuildKwargs(f, p) ==
    IF f = "search_models" THEN BuildKwargsModels(p) ELSE BuildKwargsDatasets(p)

\* the catalog client operation each function calls
Endpoint(f) == IF f = "search_models" THEN "list_models" ELSE "list_datasets"

\* ------------------------------------------------------ record normalisation
\* the loop body of search_models on one raw record: the dict it appends, or
\* the exception the body raises
NormalizeModel(model) ==
    LET model_id == GetAttr(model, "id", NA)
    IN  IF model_id.t # "str"
        THEN [ok |-> FALSE, exc |-> "TypeError"]      \* "/" in None
        ELSE LET model_author ==
                     IF CharIn("/", model_id.v)
                     THEN Str(SplitHead(model_id.v, "/"))
                     ELSE PyOr(GetAttr(model, "author", None), NA)
             IN  [ok  |-> TRUE,
                  rec |-> [id        |-> model_id,
                           author    |-> model_author,
                           downloads |-> GetAttr(model, "downloads", PyInt(0)),
                           likes     |-> GetAttr(model, "likes", PyInt(0)),
                           tags      |-> GetAttr(model, "tags", PyList(<<>>))]]

\* the loop body of search_datasets on one raw record
NormalizeDataset(dataset) ==
    LET dataset_id == GetAttr(dataset, "id", NA)
    IN  IF dataset_id.t # "str"
        THEN [ok |-> FALSE, exc |-> "TypeError"]
        ELSE LET dataset_author ==
                     IF CharIn("/", dataset_id.v)
                     THEN Str(SplitHead(dataset_id.v, "/"))
                     ELSE PyOr(GetAttr(dataset, "author", None), NA)
             IN  [ok  |-> TRUE,
                  rec |-> [id        |-> dataset_id,
                           author    |-> dataset_author,
                           downloads |-> GetAttr(dataset, "downloads", PyInt(0)),
                           likes     |-> GetAttr(dataset, "likes", PyInt(0)),
                           tags      |-> GetAttr(dataset, "tags", PyList(<<>>))]]

Normalize(f, raw) ==
    IF f = "search_models" THEN NormalizeModel(raw) ELSE NormalizeDataset(raw)

\* ------------------------------------------------------------------ inputs
\* marks a field that is left out when an object is built
Missing == [t |-> "missing"]

\* the object that carries the fields of full that are not Missing
MkObj(full) == [k \in {x \in DOMAIN full : full[x] # Missing} |-> full[k]]

S_bert == Str(<<"b", "e", "r", "t">>)
S_google == Str(<<"g", "o", "o", "g", "l", "e">>)
S_nlp == Str(<<"n", "l", "p">>)
S_fill == Str(<<"f", "i", "l", "l">>)
S_empty == Str(<<>>)

IdOpts == {Missing, None, Str(<<"g", "/", "b">>), Str(<<"a", "/", "b", "/", "c">>),
           Str(<<"s">>), Str(<<"/", "x">>)}
AuthorOpts == {Missing, None, S_empty, Str(<<"o">>)}
CountOpts == {Missing, None, PyInt(7)}
TagsOpts == {Missing, None, PyList(<<>>), PyList(<<S_nlp>>)}

\* every raw record: each attribute missing, None or set
AllRaw ==
    {MkObj([id |-> i, author |-> a, downloads |-> d, likes |-> l, tags |-> g]) :
        i \in IdOpts, a \in AuthorOpts, d \in CountOpts, l \in CountOpts, g \in TagsOpts}

\* a few raw records: complete, defaulted, without an id, with id None
RawComplete ==
    MkObj([id |-> Str(<<"g", "/", "b">>), author |-> Str(<<"o">>), downloads |-> PyInt(7),
           likes |-> PyInt(7), tags |-> PyList(<<S_nlp>>)])

RawSample ==
    {RawComplete,
     MkObj([id |-> Str(<<"s">>), author |-> Missing, downloads |-> None,
            likes |-> Missing, tags |-> Missing]),
     MkObj([id |-> Missing, author |-> Str(<<"o">>), downloads |-> PyInt(7),
            likes |-> PyInt(7), tags |-> PyList(<<>>)]),
     MkObj([id |-> None, author |-> None, downloads |-> PyInt(7),
            likes |-> None, tags |-> None])}

\* the sequences over S of length at most n
SeqUpTo(S, n) == UNION {[1..k -> S] : k \in 0..n}

\* keyword arguments a library caller can pass: each one left out, None or set
GivenModels(qs, ls, as, gs, ts) ==
    {MkObj([query |-> q, limit |-> l, author |-> a, tags |-> g, task |-> t]) :
        q \in qs, l \in ls, a \in as, g \in gs, t \in ts}

GivenDatasets(qs, ls, as, gs) ==
    {MkObj([query |-> q, limit |-> l, author |-> a, tags |-> g]) :
        q \in qs, l \in ls, a \in as, g \in gs}

QueryOpts == {Missing, None, S_empty, S_bert}
LimitOpts == {Missing, PyInt(1), PyInt(2)}
AuthorArgOpts == {Missing, None, S_empty, S_google}
TagsArgOpts == {Missing, None, PyList(<<>>), PyList(<<S_nlp>>)}
TaskOpts == {Missing, None, S_empty, S_fill}

\* what parse_args() can return: --limit defaults to 10, --tags takes one or more
\* values, the other options default to None, --export to False, --export-format
\* to csv; without a subcommand only type is set
NsModels(qs, ls, as, gs, ts) ==
    {[type |-> "models", query |-> q, limit |-> l, author |-> a, tags |-> g, task |-> t,
      export |-> e, export_format |-> x] :
        q \in qs, l \in ls, a \in as, g \in gs, t \in ts, e \in BOOLEAN, x \in {"csv", "txt"}}

NsDatasets(qs, ls, as, gs) ==
    {[type |-> "datasets", query |-> q, limit |-> l, author |-> a, tags |-> g,
      export |-> e, export_format |-> x] :
        q \in qs, l \in ls, a \in as, g \in gs, e \in BOOLEAN, x \in {"csv", "txt"}}

NsNoType == [type |-> "None"]

\* failures of the catalog client
TransportFailures == {"ConnectionError", "HfHubHTTPError"}

\* ------------------------------------------------------------------- state
VARIABLES
    catalog,     \* the result stream the unchanged catalog delivers
    caller,      \* "lib": the functions are called directly; "cli": by main()
    ns,          \* the parsed command line (cli)
    fn,          \* the function called: "search_models" or "search_datasets"
    given,       \* the keyword arguments the caller passes
    pc,          \* position in the function
    params,      \* the function's parameters, defaults applied
    kwargs,      \* the outbound request
    sent,        \* the requests issued to the catalog client, all calls
    pos,         \* raw records consumed from the stream
    model_list,  \* model_list / dataset_list
    outcome,     \* what the call gave its caller: a value or an exception
    fault,       \* the failure of the catalog client in this call, if any
    history,     \* the outcomes of the caller's earlier calls
    cliPc,       \* position in main()
    console,     \* what main() printed
    exitStatus,  \* the process's exit status, -1 while it runs
    exports      \* the export files main() tried to write

vars == <<catalog, caller, ns, fn, given, pc, params, kwargs, sent, pos, model_list,
          outcome, fault, history, cliPc, console, exitStatus, exports>>

NoOutcome == [kind |-> "none"]

\* the state before the first call, for a library caller and for main()
Start(c, cat, f, g, n) ==
    /\ catalog = cat
    /\ caller = c
    /\ ns = n
    /\ fn = f
    /\ given = g
    /\ pc = "idle"
    /\ params = <<>>
    /\ kwargs = <<>>
    /\ sent = <<>>
    /\ pos = 0
    /\ model_list = <<>>
    /\ outcome = NoOutcome
    /\ fault = "none"
    /\ history = <<>>
    /\ cliPc = IF c = "cli" THEN "parsed" ELSE "off"
    /\ console = <<>>
    /\ exitStatus = -1
    /\ exports = <<>>

\* ------------------------------------------------------------ search steps
\* a faulty handler: the new exception is raised without "from e"
ExceptModelsNoCause(e) ==
    [kind |-> "raise", exc |-> "RuntimeError", msg |-> "Error searching models", cause |-> "none"]

\* except Exception as e: raise RuntimeError(...) from e, in search_models
ExceptModels(e) ==
    [kind |-> "raise", exc |-> "RuntimeError", msg |-> "Error searching models", cause |-> e]

\* the same handler of search_datasets
ExceptDatasets(e) ==
    [kind |-> "raise", exc |-> "RuntimeError", msg |-> "Error searching datasets", cause |-> e]

Except(f, e) == IF f = "search_models" THEN ExceptModels(e) ELSE ExceptDatasets(e)

\* a faulty client call: the request is issued a second time
IssueTwice(s, f, kw) ==
    s \o <<[endpoint |-> Endpoint(f), kwargs |-> kw], [endpoint |-> Endpoint(f), kwargs |-> kw]>>

\* api.list_models(**kwargs) / api.list_datasets(**kwargs): one request
IssueRequest(s, f, kw) == Append(s, [endpoint |-> Endpoint(f), kwargs |-> kw])

\* a faulty accumulation: the new dict is put in front
ListPrepend(l, x) == <<x>> \o l

\* model_list.append(model_dict) / dataset_list.append(dataset_dict)
ListAppend(l, x) == Append(l, x)

\* a library caller calls the function, at first and again with the same arguments
LibCall ==
    /\ caller = "lib"
    /\ pc \in {"idle", "returned", "raised"}
    /\ Len(history) + (IF pc = "idle" THEN 0 ELSE 1) < MaxCalls
    /\ history' = IF pc = "idle" THEN history ELSE Append(history, outcome)
    /\ params' = Bind(fn, given)
    /\ pc' = "try"
    /\ kwargs' = <<>>
    /\ pos' = 0
    /\ model_list' = <<>>
    /\ outcome' = NoOutcome
    /\ fault' = "none"
    /\ UNCHANGED <<catalog, caller, ns, fn, given, sent, cliPc, console, exitStatus, exports>>

\* kwargs = {"limit": limit}; if query: ...
BuildRequest ==
    /\ pc = "try"
    /\ kwargs' = BuildKwargs(fn, params)
    /\ pc' = "built"
    /\ UNCHANGED <<catalog, caller, ns, fn, given, params, sent, pos, model_list, outcome,
                   fault, history, cliPc, console, exitStatus, exports>>

\* results = api.list_...(**kwargs): the client answers with the result stream
ListOk ==
    /\ pc = "built"
    /\ sent' = IssueRequest(sent, fn, kwargs)
    /\ pc' = "iter"
    /\ UNCHANGED <<catalog, caller, ns, fn, given, params, kwargs, pos, model_list, outcome,
                   fault, history, cliPc, console, exitStatus, exports>>

\* results = api.list_...(**kwargs): the client fails; the handler wraps the failure
ListFails ==
    /\ pc = "built"
    /\ \E e \in TransportFailures :
           /\ fault' = e
           /\ outcome' = Except(fn, e)
    /\ sent' = IssueRequest(sent, fn, kwargs)
    /\ pc' = "raised"
    /\ UNCHANGED <<catalog, caller, ns, fn, given, params, kwargs, pos, model_list,
                   history, cliPc, console, exitStatus, exports>>

\* one turn of the for loop: the stream yields a raw record and the body runs
IterNext ==
    /\ pc = "iter"
    /\ pos < Len(catalog)
    /\ pos' = pos + 1
    /\ LET n == Normalize(fn, catalog[pos + 1])
       IN  IF n.ok
           THEN /\ model_list' = ListAppend(model_list, n.rec)
                /\ UNCHANGED <<pc, outcome>>
           ELSE /\ outcome' = Except(fn, n.exc)
                /\ pc' = "raised"
                /\ UNCHANGED model_list
    /\ UNCHANGED <<catalog, caller, ns, fn, given, params, kwargs, sent, fault, history,
                   cliPc, console, exitStatus, exports>>

\* the stream fails while it is consumed; the handler wraps the failure
IterFails ==
    /\ pc = "iter"
    /\ \E e \in TransportFailures :
           /\ fault' = e
           /\ outcome' = Except(fn, e)
    /\ pc' = "raised"
    /\ UNCHANGED <<catalog, caller, ns, fn, given, params, kwargs, sent, pos, model_list,
                   history, cliPc, console, exitStatus, exports>>

\* the stream is exhausted: return model_list
ReturnList ==
    /\ pc = "iter"
    /\ pos = Len(catalog)
    /\ outcome' = [kind |-> "return", value |-> model_list]
    /\ pc' = "returned"
    /\ UNCHANGED <<catalog, caller, ns, fn, given, params, kwargs, sent, pos, model_list,
                   fault, history, cliPc, console, exitStatus, exports>>

\* ------------------------------------------------------------------ main()
\* a faulty emptiness test: "if results is None"
ResultsIsNone(results) == FALSE

\* not results
NotResults(results) == Len(results) = 0

\* create_results_table raises TypeError on an item whose downloads or likes
\* format_number cannot format, or whose tags cannot be sliced
RenderRaises(results) ==
    \E i \in 1..Len(results) :
        \/ results[i].downloads.t # "int"
        \/ results[i].likes.t # "int"
        \/ results[i].tags.t # "list"

\* the keyword arguments main() passes
MainGiven(n) ==
    IF n.type = "models"
    THEN [query |-> n.query, limit |-> n.limit, author |-> n.author, tags |-> n.tags,
          task |-> n.task]
    ELSE [query |-> n.query, limit |-> n.limit, author |-> n.author, tags |-> n.tags]

MainFn(n) == IF n.type = "models" THEN "search_models" ELSE "search_datasets"

\* if not args.type: parser.print_help(); sys.exit(1)
MainNoType ==
    /\ cliPc = "parsed"
    /\ ns.type = "None"
    /\ console' = Append(console, "help")
    /\ exitStatus' = 1
    /\ cliPc' = "exited"
    /\ UNCHANGED <<catalog, caller, ns, fn, given, pc, params, kwargs, sent, pos, model_list,
                   outcome, fault, history, exports>>

\* results = search_models(...) / search_datasets(...)
MainSearch ==
    /\ cliPc = "parsed"
    /\ ns.type # "None"
    /\ fn' = MainFn(ns)
    /\ given' = MainGiven(ns)
    /\ params' = Bind(MainFn(ns), MainGiven(ns))
    /\ pc' = "try"
    /\ cliPc' = "searching"
    /\ UNCHANGED <<catalog, caller, ns, kwargs, sent, pos, model_list, outcome, fault,
                   history, console, exitStatus, exports>>

\* except Exception as e: print the error; sys.exit(1)
MainError ==
    /\ cliPc = "searching"
    /\ pc = "raised"
    /\ console' = Append(console, "error")
    /\ exitStatus' = 1
    /\ cliPc' = "exited"
    /\ UNCHANGED <<catalog, caller, ns, fn, given, pc, params, kwargs, sent, pos, model_list,
                   outcome, fault, history, exports>>

\* if not results: print the "No Results" panel; sys.exit(0)
MainNoResults ==
    /\ cliPc = "searching"
    /\ pc = "returned"
    /\ NotResults(outcome.value)
    /\ console' = Append(console, "no_results")
    /\ exitStatus' = 0
    /\ cliPc' = "exited"
    /\ UNCHANGED <<catalog, caller, ns, fn, given, pc, params, kwargs, sent, pos, model_list,
                   outcome, fault, history, exports>>

\* table = create_results_table(...); print it and the count; an exception of
\* create_results_table is not caught and ends the process with status 1
MainRender ==
    /\ cliPc = "searching"
    /\ pc = "returned"
    /\ ~NotResults(outcome.value)
    /\ IF RenderRaises(outcome.value)
       THEN /\ console' = Append(console, "traceback")
            /\ exitStatus' = 1
            /\ cliPc' = "exited"
       ELSE /\ console' = console \o <<"table", "found">>
            /\ cliPc' = "rendered"
            /\ UNCHANGED exitStatus
    /\ UNCHANGED <<catalog, caller, ns, fn, given, pc, params, kwargs, sent, pos, model_list,
                   outcome, fault, history, exports>>

\* if args.export: write the file, sys.exit(1) when that fails; then the tip when
\* args.query is set; main() returns
MainExport ==
    /\ cliPc = "rendered"
    /\ \E written \in BOOLEAN :
           LET tip == IF Truthy(ns.query) THEN <<"tip">> ELSE <<>>
           IN  IF ~ns.export
               THEN /\ console' = console \o tip
                    /\ exitStatus' = 0
                    /\ UNCHANGED exports
               ELSE /\ exports' = Append(exports, [format |-> ns.export_format,
                                                   rows |-> Len(outcome.value),
                                                   written |-> written])
                    /\ IF written
                       THEN /\ console' = console \o <<"exported">> \o tip
                            /\ exitStatus' = 0
                       ELSE /\ console' = Append(console, "export_error")
                            /\ exitStatus' = 1
    /\ cliPc' = "exited"
    /\ UNCHANGED <<catalog, caller, ns, fn, given, pc, params, kwargs, sent, pos, model_list,
                   outcome, fault, history>>

\* ---------------------------------------------------------- specifications
Next ==
    \/ LibCall
    \/ BuildRequest
    \/ ListOk
    \/ ListFails
    \/ IterNext
    \/ IterFails
    \/ ReturnList
    \/ MainNoType
    \/ MainSearch
    \/ MainError
    \/ MainNoResults
    \/ MainRender
    \/ MainExport

Fns == {"search_models", "search_datasets"}

\* the keyword arguments of a library caller, every combination
GivenAll(f) ==
    IF f = "search_models"
    THEN GivenModels(QueryOpts, LimitOpts, AuthorArgOpts, TagsArgOpts, TaskOpts)
    ELSE GivenDatasets(QueryOpts, LimitOpts, AuthorArgOpts, TagsArgOpts)

\* some of them: the query and the limit vary
GivenSome(f) ==
    IF f = "search_models"
    THEN GivenModels({Missing, S_empty, S_bert}, LimitOpts, {Missing}, {Missing}, {Missing})
    ELSE GivenDatasets({Missing, S_empty, S_bert}, LimitOpts, {Missing}, {Missing})

\* the command lines, every combination of options
NsAll ==
    {NsNoType}
    \cup NsModels({None, S_empty, S_bert}, {PyInt(DefaultLimit), PyInt(1)}, {None, S_empty, S_google},
                  {None, PyList(<<S_nlp>>)}, {None, S_empty, S_fill})
    \cup NsDatasets({None, S_empty, S_bert}, {PyInt(DefaultLimit), PyInt(1)}, {None, S_empty, S_google},
                    {None, PyList(<<S_nlp>>)})

\* some of them: the query and the limit vary
NsSome ==
    {NsNoType}
    \cup NsModels({None, S_bert}, {PyInt(DefaultLimit), PyInt(1)}, {None}, {None}, {None})
    \cup NsDatasets({None, S_bert}, {PyInt(DefaultLimit), PyInt(1)}, {None}, {None})

\* the calls of a library caller: a function and its keyword arguments
LibCalls(f, givens) == {<<f, g>> : g \in givens}

InitOf(catalogs, libs, nss) ==
    \E cat \in catalogs :
        \/ \E c \in libs : Start("lib", cat, c[1], c[2], <<>>)
        \/ \E n \in nss : Start("cli", cat, "none", <<>>, n)

\* streams of sample records, some callers
Init ==
    InitOf(SeqUpTo(RawSample, MaxStream),
           UNION {LibCalls(f, GivenSome(f)) : f \in Fns}, NsSome)

Spec == Init /\ [][Next]_vars

\* every combination of filters, against an empty and a one-record stream
InitFilters ==
    InitOf({<<>>, <<RawComplete>>}, UNION {LibCalls(f, GivenAll(f)) : f \in Fns}, NsAll)

SpecFilters == InitFilters /\ [][Next]_vars

\* every raw record, alone in the stream, against callers that pass no filter
InitRecords ==
    InitOf(SeqUpTo(AllRaw, 1),
           UNION {LibCalls(f, {<<>>}) : f \in Fns},
           {n \in NsSome : n.type = "None" \/ (n.query = None /\ n.limit = PyInt(DefaultLimit))})

SpecRecords == InitRecords /\ [][Next]_vars

\* ------------------------------------------------------------------ claims
FilterNames == {"query", "author", "tags", "task"}

\* the request key of a filter
FilterKey(name) ==
    CASE name = "query"  -> "search"
      [] name = "author" -> "author"
      [] name = "tags"   -> "filter"
      [] name = "task"   -> "pipeline_tag"

\* the caller passes no value for the parameter: it is left out, or None
Omitted(name) == name \notin DOMAIN given \/ given[name] = None

Range(q) == {q[i] : i \in 1..Len(q)}

\* the requests the calls build and send
Requests == (IF pc \in {"built", "iter", "returned", "raised"} THEN {kwargs} ELSE {})
            \cup {r.kwargs : r \in Range(sent)}

\* C1: a filter the caller omits (passes nothing, or None) has no key in the
\* outbound request of search_models / search_datasets.
C1_OmittedInOmittedOut ==
    \A kw \in Requests : \A name \in FilterNames :
        Omitted(name) => FilterKey(name) \notin DOMAIN kw

\* C1 witness: a request was sent for a call that leaves query out, passes
\* author=None and supplies tags.
C1_Witness ==
    /\ pc = "iter"
    /\ "query" \notin DOMAIN given
    /\ "author" \in DOMAIN given /\ given.author = None
    /\ "tags" \in DOMAIN given /\ Truthy(given.tags)
    /\ DOMAIN sent[Len(sent)].kwargs = {"limit", "filter"}

\* the author the resolution rule gives a raw record: the part of id before the
\* first "/", else the raw author when there is one, else "N/A"
RuleAuthor(raw) ==
    LET hasId == "id" \in DOMAIN raw /\ raw.id.t = "str"
    IN  IF hasId /\ \E k \in 1..Len(raw.id.v) : raw.id.v[k] = "/"
        THEN LET k == CHOOSE n \in 1..Len(raw.id.v) :
                          raw.id.v[n] = "/" /\ \A j \in 1..(n - 1) : raw.id.v[j] # "/"
             IN  Str([j \in 1..(k - 1) |-> raw.id.v[j]])
        ELSE IF "author" \in DOMAIN raw /\ raw.author # None
             THEN raw.author
             ELSE NA

\* C2: the author of every normalized record follows the resolution rule: the
\* part of id before the first "/", else the raw author when present, else "N/A".
C2_AuthorResolution ==
    \A i \in 1..Len(model_list) : model_list[i].author = RuleAuthor(catalog[i])

\* the raw record has no value for the attribute: it lacks it, or it is None
Absent(raw, name) == name \notin DOMAIN raw \/ raw[name] = None

WellTyped(r) ==
    /\ r.id.t = "str"
    /\ r.author.t = "str"
    /\ r.downloads.t = "int" /\ r.downloads.v >= 0
    /\ r.likes.t = "int" /\ r.likes.v >= 0
    /\ r.tags.t = "list" /\ \A j \in 1..Len(r.tags.v) : r.tags.v[j].t = "str"

\* C3: every normalized record is well-typed in all five fields, and an absent
\* (missing or None) downloads, likes, tags becomes 0, 0, the empty sequence.
C3_TotalDefaulting ==
    \A i \in 1..Len(model_list) :
        /\ WellTyped(model_list[i])
        /\ Absent(catalog[i], "downloads") => model_list[i].downloads = PyInt(0)
        /\ Absent(catalog[i], "likes") => model_list[i].likes = PyInt(0)
        /\ Absent(catalog[i], "tags") => model_list[i].tags = PyList(<<>>)

\* C4: a call with limit L returns at most L normalized records, also when the
\* stream offers more.
C4_LimitRespected ==
    outcome.kind = "return" => Len(outcome.value) <= params.limit.v

\* C5 as stated: a failure of the catalog client surfaces as a SearchError whose
\* cause is that failure, and nothing is returned.
C5_FailureIsSearchError ==
    fault # "none" =>
        /\ pc = "raised"
        /\ outcome.kind = "raise"
        /\ outcome.exc = "SearchError"
        /\ outcome.cause = fault

\* C5 amended: a failure of the catalog client surfaces as a RuntimeError whose
\* cause is that failure, and nothing is returned, not even the records built
\* before the failure.
C5_FailureIsRuntimeError ==
    fault # "none" =>
        /\ pc = "raised"
        /\ outcome.kind = "raise"
        /\ outcome.exc = "RuntimeError"
        /\ outcome.cause = fault
        /\ "value" \notin DOMAIN outcome

\* C5 witness: the stream failed after a record had been normalized.
C5_Witness ==
    /\ fault # "none"
    /\ pc = "raised"
    /\ Len(model_list) >= 1

\* C6: without a transport failure the call never raises, whatever the raw
\* records lack, and it returns one normalized record for every raw record.
C6_PartialRecordNeverError ==
    fault = "none" =>
        /\ pc # "raised"
        /\ pc = "returned" => Len(outcome.value) = Len(catalog)

\* C7: every request carries limit with the caller's value (10 by default) and
\* every filter the caller supplies (anything but None) under its key, unchanged,
\* and no other key.
C7_SuppliedInSuppliedOut ==
    \A kw \in Requests :
        /\ "limit" \in DOMAIN kw
        /\ kw.limit = (IF "limit" \in DOMAIN given THEN given.limit ELSE PyInt(10))
        /\ \A name \in FilterNames :
               ~Omitted(name) => /\ FilterKey(name) \in DOMAIN kw
                                 /\ kw[FilterKey(name)] = given[name]
        /\ DOMAIN kw \subseteq {"limit"} \cup {FilterKey(name) : name \in {n \in FilterNames : ~Omitted(n)}}

\* C8: each call issues exactly one request to the catalog client, whether it
\* succeeds or fails: the requests sent are one per earlier call, plus one once
\* this call has passed its client call, each to the called function's operation.
C8_OneRequestPerCall ==
    /\ Len(sent) = Len(history) + (IF pc \in {"iter", "returned", "raised"} THEN 1 ELSE 0)
    /\ \A i \in 1..Len(sent) : sent[i].endpoint = Endpoint(fn)

\* C8 witness: a second call failed on a transport failure, two requests in all.
C8_Witness ==
    /\ Len(history) = 1
    /\ pc = "raised"
    /\ fault # "none"
    /\ Len(sent) = 2

\* C9: main() after a failed query prints the error and exits non-zero, with no
\* table and no export; after a query with zero results it prints "No Results"
\* and exits 0, with no table and no export; a table or an export comes only
\* after a successful query with at least one result.
C9_CliOutcome ==
    caller = "cli" =>
        /\ (pc = "raised" /\ cliPc = "exited") =>
               exitStatus # 0 /\ console = <<"error">> /\ exports = <<>>
        /\ (pc = "returned" /\ cliPc = "exited" /\ Len(outcome.value) = 0) =>
               exitStatus = 0 /\ console = <<"no_results">> /\ exports = <<>>
        /\ ("table" \in Range(console) \/ exports # <<>>) =>
               pc = "returned" /\ Len(outcome.value) >= 1

\* C9 witness: main() exited with status 0 on zero results, --export given.
C9_Witness ==
    /\ caller = "cli"
    /\ cliPc = "exited"
    /\ pc = "returned"
    /\ Len(outcome.value) = 0
    /\ ns.export
    /\ exitStatus = 0

\* C10: the i-th record built is the normalization of the i-th raw record of the
\* stream, a returned sequence has one record per raw record, and two calls with
\* the same arguments against the same catalog return the same sequence.
C10_IdempotentOrdered ==
    /\ \A i \in 1..Len(model_list) :
           /\ Normalize(fn, catalog[i]).ok
           /\ model_list[i] = Normalize(fn, catalog[i]).rec
    /\ outcome.kind = "return" =>
           /\ Len(outcome.value) = Len(catalog)
           /\ outcome.value = model_list
           /\ \A i \in 1..Len(history) :
                  history[i].kind = "return" => history[i].value = outcome.value

\* C10 witness: a second call returned two different records, after a first call
\* that returned.
C10_Witness ==
    /\ Len(history) = 1
    /\ history[1].kind = "return"
    /\ outcome.kind = "return"
    /\ Len(outcome.value) = 2
    /\ outcome.value[1] # outcome.value[2]

====
